---- MODULE Spec2Model ----
(***************************************************************************)
(* Verification model of the racegame core: the lap / checkpoint tracker   *)
(* (lap-tracker.ts), the GameState aggregate (types/game.ts,               *)
(* game-state.ts) and the fixed-timestep GameLoop (game-loop.ts).          *)
(*                                                                         *)
(* Time: performance.now() is the variable clock.  One clock unit is half  *)
(* a tick, so TICK_DURATION (1/60 s) is TickDuration = 2 units and the     *)
(* 0.25 s frame cap is 15 ticks.  Reads of the clock inside one            *)
(* synchronous handler may drift forward by at most MaxJitter units in     *)
(* total, which is less than one tick.                                     *)
(*                                                                         *)
(* Space: positions are integer grid points, so the cross products of      *)
(* lineSegmentIntersection are exact integers.  The physics engine is the  *)
(* PhysicsEngine interface that GameLoop is constructed with: any engine,  *)
(* i.e. any new car state of CarStates.                                    *)
(***************************************************************************)
EXTENDS Integers, Sequences, FiniteSets, TLC

VARIABLES
    state,            \* GameLoop.state : GameState
    running,          \* GameLoop.running
    animationFrameId, \* GameLoop.animationFrameId: "null", "pending" (its callback is queued), "stale" (its callback has run)
    accumulator,      \* GameLoop.accumulator
    lastTime,         \* GameLoop.lastTime
    onStateChange,    \* GameLoop.onStateChange: "null" or "callback"
    listening,        \* the input source is started (KeyboardInput listeners attached)
    keys,             \* KeyboardInput.keys
    sinceStop,        \* history: whether a key was down when KeyboardInput.stop() was last called, and whether a keydown was received since (or since construction)
    clock,            \* performance.now()
    orphanFrames,     \* queued frame callbacks whose id animationFrameId no longer holds
    pc,               \* position of the frame callback: "idle" or "drain" (inside the while loop of loop())
    frameSteps,       \* history: ticks committed by the steps of the frame being drained
    frameStart,       \* history: accumulator and elapsed time read at the start of the frame being drained
    frameCalls,       \* history: number of step() calls made by the frame being drained
    sampled,          \* history: number of getInput() calls made by the frame being drained, and the last value returned
    rendered,         \* history: the render calls made by the frame being drained, or by the latest handler
    held,             \* history: a GameState obtained earlier, what it reads now, and which of its objects this.state still refers to
    restarted,        \* history: the latest transition was a call of restart()
    startIgnored,     \* history: the latest transition was a call of start() made while the loop was running
    lastStep,         \* history: record of the step() call made by the latest transition, or NoStep
    accepted,         \* history: non-zero checkpoints accepted since the last lap record / restart
    lapWitness,       \* history: for each lap record, the value of accepted when it was appended
    config,           \* SimplePhysicsEngine.config
    car1,             \* the CarState of a first run of engine.update calls
    car2,             \* the CarState of a second run given the same inputs as the first
    physicsTick,      \* number of engine.update calls made in each of the two runs
    args,             \* the arguments of a call of one of the library functions
    returned          \* what that call returned, once it has been made

gameVars == <<state, running, animationFrameId, accumulator, lastTime, onStateChange,
              listening, keys, sinceStop, clock, orphanFrames, pc, frameSteps, frameStart, frameCalls, sampled,
              rendered, held, restarted, startIgnored, lastStep, accepted, lapWitness>>

physicsVars == <<config, car1, car2, physicsTick>>

libraryVars == <<args, returned>>

vars == <<gameVars, physicsVars, libraryVars>>

(***************************** bounds **************************************)
MaxTime == 4
MaxTick == 1
MaxLapTick == 4
MaxHeldTick == 2
MaxRaceTick == 3
MaxPhysicsTick == 3
MaxStartSpeed == 6
MaxCoastTick == 5
MaxBrakeTick == 5
GridMax == 2
MaxMinutes == 100
MaxOrphans == 1
NumCheckpoints == 3
TotalLaps == 1

(************************* program constants *******************************)
TickDuration == 2
FrameCap == 15 * TickDuration
MaxJitter == TickDuration - 1

NoStep == [ran |-> "none"]
NoFrame == [accumulator |-> 0, elapsed |-> 0]
NoArgs == [none |-> TRUE]
NoResult == [done |-> FALSE]
Done(value) == [done |-> TRUE, value |-> value]

Min(a, b) == IF a < b THEN a ELSE b
Max(a, b) == IF a > b THEN a ELSE b
Abs(a) == IF a < 0 THEN -a ELSE a

(***************************** vector.ts ***********************************)
vec2(x, y) == [x |-> x, y |-> y]
subtract(a, b) == vec2(a.x - b.x, a.y - b.y)
cross(a, b) == a.x * b.y - a.y * b.x
add(a, b) == vec2(a.x + b.x, a.y + b.y)
scale(v, scalar) == vec2(v.x * scalar, v.y * scalar)
dot(a, b) == a.x * b.x + a.y * b.y

\* Angles are counted in quarter turns, for which cos and sin are exact.
fromAngle(angle) ==
    LET q == angle % 4
    IN  IF q = 0 THEN vec2(1, 0)
        ELSE IF q = 1 THEN vec2(0, 1)
        ELSE IF q = 2 THEN vec2(-1, 0)
        ELSE vec2(0, -1)

\* Math.sqrt, exact on the squares
Sqrt(n) == CHOOSE r \in 0..n : r * r <= n /\ n < (r + 1) * (r + 1)

(****************************** track.ts ***********************************)
createLineSegment(start, end) == [start |-> start, end |-> end]
createCheckpoint(segment, index) == [segment |-> segment, index |-> index]

\* A track with NumCheckpoints parallel gates at x = 0, 2, 4, ... spanning y = 0..2,
\* indexed in list order, start/finish first (as createOvalCheckpoints indexes them).
Track ==
    [ name |-> "grid",
      checkpoints |-> [i \in 1..NumCheckpoints |->
          createCheckpoint(createLineSegment(vec2(2 * (i - 1), 0), vec2(2 * (i - 1), 2)), i - 1)],
      startPosition |-> vec2(-1, 1),
      startRotation |-> 0 ]

(***************************** collision.ts ********************************)
Null == [null |-> TRUE]

\* the parameter test, with the ends of the segment excluded
InUnitInterval_Open(n, d) == IF d > 0 THEN 0 < n /\ n < d ELSE d < n /\ n < 0

\* 0 <= n / d <= 1 for integers n and d # 0 (the test t >= 0 && t <= 1 on the quotient)
InUnitInterval(n, d) == IF d > 0 THEN 0 <= n /\ n <= d ELSE d <= n /\ n <= 0

\* the intersection, were the far end of the second segment excluded (u < 1)
lineSegmentIntersection_HalfOpenU(seg1, seg2) ==
    LET p == seg1.start
        r == subtract(seg1.end, seg1.start)
        q == seg2.start
        s == subtract(seg2.end, seg2.start)
        rxs == cross(r, s)
        qmp == subtract(q, p)
        qmpxr == cross(qmp, r)
        tnum == cross(qmp, s)
    IN  IF Abs(rxs) = 0 THEN Null
        ELSE IF InUnitInterval(tnum, rxs) /\ InUnitInterval(qmpxr, rxs) /\ qmpxr # rxs
             THEN [x |-> <<p.x * rxs + tnum * r.x, rxs>>, y |-> <<p.y * rxs + tnum * r.y, rxs>>]
             ELSE Null

\* The intersection point, its coordinates as exact fractions <<numerator, denominator>>, or Null.
\* On integer coordinates |rxs| < 1e-10 is rxs = 0.
lineSegmentIntersection(seg1, seg2) ==
    LET p == seg1.start
        r == subtract(seg1.end, seg1.start)
        q == seg2.start
        s == subtract(seg2.end, seg2.start)
        rxs == cross(r, s)
        qmp == subtract(q, p)
        qmpxr == cross(qmp, r)
        tnum == cross(qmp, s)
    IN  IF Abs(rxs) = 0 THEN Null
        ELSE IF InUnitInterval(tnum, rxs) /\ InUnitInterval(qmpxr, rxs)
             THEN [x |-> <<p.x * rxs + tnum * r.x, rxs>>, y |-> <<p.y * rxs + tnum * r.y, rxs>>]
             ELSE Null

\* The loop over the edges: the sign of the first cross product (1 if positive, -1
\* otherwise) has to be the sign of every other one.
pointInPolygon(point, polygon) ==
    LET n == Len(polygon)
        sign(i) == LET a == polygon[i]
                       b == polygon[(i % n) + 1]
                       crossProduct == cross(subtract(b, a), subtract(point, a))
                   IN  IF crossProduct > 0 THEN 1 ELSE -1
    IN  IF n < 3 THEN FALSE
        ELSE \A i \in 2..n : sign(i) = sign(1)

\* The corners of the rectangle; rotation in quarter turns, width and height even, so
\* that cos, sin and the half sides are whole numbers.
getRotatedRectCorners(center, width, height, rotation) ==
    LET cos == fromAngle(rotation).x
        sin == fromAngle(rotation).y
        hw == width \div 2
        hh == height \div 2
        localCorners == <<vec2(-hw, -hh), vec2(hw, -hh), vec2(hw, hh), vec2(-hw, hh)>>
    IN  [i \in 1..4 |->
            vec2(center.x + localCorners[i].x * cos - localCorners[i].y * sin,
                 center.y + localCorners[i].x * sin + localCorners[i].y * cos)]

\* the edge of the rectangle from corner i to the next corner
EdgeOf(corners, i) == createLineSegment(corners[i], corners[(i % 4) + 1])

\* the test, were the start point of the line not looked at
rectangleIntersectsLine_EdgesOnly(center, width, height, rotation, line) ==
    LET corners == getRotatedRectCorners(center, width, height, rotation)
    IN  \E i \in 1..4 : lineSegmentIntersection(EdgeOf(corners, i), line) # Null

rectangleIntersectsLine(center, width, height, rotation, line) ==
    LET corners == getRotatedRectCorners(center, width, height, rotation)
    IN  IF \E i \in 1..4 : lineSegmentIntersection(EdgeOf(corners, i), line) # Null
        THEN TRUE
        ELSE IF pointInPolygon(line.start, corners) THEN TRUE
        ELSE FALSE

(**************************** lap-tracker.ts *******************************)
\* the crossing test, were a car standing on the checkpoint line counted as crossing it
crossesCheckpoint_Touching(oldPos, newPos, checkpoint) ==
    \/ lineSegmentIntersection([start |-> oldPos, end |-> newPos], checkpoint.segment) # Null
    \/ /\ cross(subtract(checkpoint.segment.end, checkpoint.segment.start),
                 subtract(newPos, checkpoint.segment.start)) = 0
       /\ dot(subtract(newPos, checkpoint.segment.start),
               subtract(newPos, checkpoint.segment.end)) <= 0

crossesCheckpoint(oldPos, newPos, checkpoint) ==
    LET movement == [start |-> oldPos, end |-> newPos]
    IN  lineSegmentIntersection(movement, checkpoint.segment) # Null

\* every checkpoint 1..N-1 is in the passed set (with the list bound off by one)
allOthersPassed_OffByOne(progress, totalCheckpoints) ==
    \A i \in 1..(totalCheckpoints - 2) : i \in progress.checkpointsPassed

\* every checkpoint 1..N-1 is in the passed set
allOthersPassed(progress, totalCheckpoints) ==
    \A i \in 1..(totalCheckpoints - 1) : i \in progress.checkpointsPassed

\* the lap record, timed from the start of the race instead of the start of the lap
newLapTime_FromRaceStart(timing, now) ==
    [lapNumber |-> timing.currentLap, timeMs |-> now - timing.raceStartTime]

\* the lap record of a completed lap
newLapTime(timing, now) ==
    [lapNumber |-> timing.currentLap, timeMs |-> now - timing.lapStartTime]

\* the start/finish line crossed mid-lap, with the progress reset instead of kept
ignoredFinishLine_Resets(progress, timing) ==
    [progress |-> [lastCheckpointIndex |-> 0, checkpointsPassed |-> {0}],
     timing |-> timing, raceFinished |-> FALSE]

\* "Not completing a lap - ignore crossing start/finish again"
ignoredFinishLine(progress, timing) ==
    [progress |-> progress, timing |-> timing, raceFinished |-> FALSE]

\* a checkpoint crossed again, with lastCheckpointIndex moved back to it
alreadyPassedResult_MovesLast(progress, timing, checkpointIndex) ==
    [progress |-> [progress EXCEPT !.lastCheckpointIndex = checkpointIndex],
     timing |-> timing, raceFinished |-> FALSE]

\* the result for a checkpoint that is already in the passed set
alreadyPassedResult(progress, timing, checkpointIndex) ==
    [progress |-> progress, timing |-> timing, raceFinished |-> FALSE]

\* the order test, also accepting the checkpoint after the expected one
isExpectedNext_OrTheOneAfter(progress, checkpointIndex, totalCheckpoints) ==
    \/ checkpointIndex = (progress.lastCheckpointIndex + 1) % totalCheckpoints
    \/ checkpointIndex = (progress.lastCheckpointIndex + 2) % totalCheckpoints

\* the order test, accepting every checkpoint
isExpectedNext_Any(progress, checkpointIndex, totalCheckpoints) == TRUE

\* the order test, accepting every checkpoint ahead of the last one
isExpectedNext_Ahead(progress, checkpointIndex, totalCheckpoints) ==
    checkpointIndex > progress.lastCheckpointIndex

\* checkpointIndex === expectedNext
isExpectedNext(progress, checkpointIndex, totalCheckpoints) ==
    LET expectedNext == (progress.lastCheckpointIndex + 1) % totalCheckpoints
    IN  checkpointIndex = expectedNext

\* now is the value performance.now() returns if the lap-completion branch reads it.
processCheckpointCross(progress, timing, checkpoint, totalCheckpoints, totalLaps, now) ==
    LET checkpointIndex == checkpoint.index
    IN  IF checkpointIndex = 0
        THEN IF allOthersPassed(progress, totalCheckpoints)
             THEN [ progress |-> [lastCheckpointIndex |-> 0, checkpointsPassed |-> {0}],
                    timing |-> [timing EXCEPT !.lapTimes = Append(@, newLapTime(timing, now)),
                                              !.lapStartTime = now,
                                              !.currentLap = @ + 1],
                    raceFinished |-> (timing.currentLap >= totalLaps) ]
             ELSE ignoredFinishLine(progress, timing)
        ELSE IF checkpointIndex \in progress.checkpointsPassed
             THEN alreadyPassedResult(progress, timing, checkpointIndex)
        ELSE IF ~isExpectedNext(progress, checkpointIndex, totalCheckpoints)
             THEN [progress |-> progress, timing |-> timing, raceFinished |-> FALSE]
        ELSE [ progress |-> [lastCheckpointIndex |-> checkpointIndex,
                             checkpointsPassed |-> progress.checkpointsPassed \cup {checkpointIndex}],
               timing |-> timing,
               raceFinished |-> FALSE ]

\* The for loop of updateLapProgress from list position k on, with the running values of
\* newProgress, newTiming and raceFinished; crossings lists, for every checkpoint crossed,
\* what processCheckpointCross was given and what it returned.
RECURSIVE LapLoop(_, _, _, _, _, _, _, _, _, _)
LapLoop(k, newProgress, newTiming, raceFinished, crossings, checkpoints, oldPos, newPos, totalLaps, now) ==
    IF k > Len(checkpoints)
    THEN [lapProgress |-> newProgress, timing |-> newTiming, raceFinished |-> raceFinished,
          crossings |-> crossings]
    ELSE IF crossesCheckpoint(oldPos, newPos, checkpoints[k])
         THEN LET result == processCheckpointCross(newProgress, newTiming, checkpoints[k],
                                                   Len(checkpoints), totalLaps, now)
              IN  LapLoop(k + 1, result.progress, result.timing, result.raceFinished,
                          Append(crossings, [index |-> checkpoints[k].index,
                                             progress |-> newProgress, timing |-> newTiming,
                                             result |-> result]),
                          checkpoints, oldPos, newPos, totalLaps, now)
         ELSE LapLoop(k + 1, newProgress, newTiming, raceFinished, crossings,
                      checkpoints, oldPos, newPos, totalLaps, now)

\* updateLapProgress, were every crossing processed against the progress and timing the
\* tick started with, the last one crossed deciding the result
updateLapProgress_EachFromStart(progress, timing, checkpoints, oldPos, newPos, totalLaps, now) ==
    LET crossed == SelectSeq(checkpoints, LAMBDA cp : crossesCheckpoint(oldPos, newPos, cp))
        results == [i \in DOMAIN crossed |->
                       processCheckpointCross(progress, timing, crossed[i],
                                              Len(checkpoints), totalLaps, now)]
    IN  IF crossed = <<>>
        THEN [lapProgress |-> progress, timing |-> timing, raceFinished |-> FALSE,
              crossings |-> <<>>]
        ELSE [lapProgress |-> results[Len(crossed)].progress,
              timing |-> results[Len(crossed)].timing,
              raceFinished |-> results[Len(crossed)].raceFinished,
              crossings |-> [i \in DOMAIN crossed |->
                                [index |-> crossed[i].index, progress |-> progress,
                                 timing |-> timing, result |-> results[i]]]]

updateLapProgress(progress, timing, checkpoints, oldPos, newPos, totalLaps, now) ==
    LapLoop(1, progress, timing, FALSE, <<>>, checkpoints, oldPos, newPos, totalLaps, now)

\* now is the value performance.now() returns
getTotalRaceTime(timing, now) == now - timing.raceStartTime

\* Strings are sequences of characters.
Digit(d) == <<"0", "1", "2", "3", "4", "5", "6", "7", "8", "9">>[d + 1]

\* Number.prototype.toString() of a natural number: its decimal digits
RECURSIVE toString(_)
toString(n) == IF n < 10 THEN <<Digit(n)>> ELSE Append(toString(n \div 10), Digit(n % 10))

\* padStart, were the string returned as it is
padStart_NoPadding(str, targetLength, padString) == str

\* String.prototype.padStart with a pad string of one character: the string itself if
\* it has targetLength characters or more
RECURSIVE padStart(_, _, _)
padStart(str, targetLength, padString) ==
    IF Len(str) >= targetLength THEN str
    ELSE padStart(<<padString>> \o str, targetLength, padString)

\* Math.floor of the values formatTime divides are whole numbers for a whole ms
formatTime(ms) ==
    LET minutes == ms \div 60000
        seconds == (ms % 60000) \div 1000
        millis == ms % 1000
    IN  padStart(toString(minutes), 2, "0") \o <<":">>
            \o padStart(toString(seconds), 2, "0") \o <<".">>
            \o padStart(toString(millis), 3, "0")

(******************************* game.ts ***********************************)
createLapProgress == [lastCheckpointIndex |-> 0, checkpointsPassed |-> {0}]

createTimingState(startTime) ==
    [raceStartTime |-> startTime, lapStartTime |-> startTime, lapTimes |-> <<>>, currentLap |-> 1]

\* updates is a partial GameState: a record with some of the fields (updates.f ?? state.f)
updateGameState(st, updates) ==
    [f \in DOMAIN st |-> IF f \in DOMAIN updates THEN updates[f] ELSE st[f]]

(******************************** car.ts ***********************************)
VEC2_ZERO == vec2(0, 0)

createCarState(position, rotation) ==
    [position |-> position, rotation |-> rotation, velocity |-> VEC2_ZERO, angularVelocity |-> 0]

\* updates is a partial CarState (updates.f ?? state.f)
updateCarState(car, updates) ==
    [f \in DOMAIN car |-> IF f \in DOMAIN updates THEN updates[f] ELSE car[f]]

getCarSpeed(car) == Sqrt(car.velocity.x * car.velocity.x + car.velocity.y * car.velocity.y)

(***************************** game-state.ts *******************************)
createInitialGameState(track, now) ==
    [ status |-> "countdown",
      car |-> createCarState(track.startPosition, track.startRotation),
      track |-> track,
      lapProgress |-> createLapProgress,
      timing |-> createTimingState(now),
      totalLaps |-> TotalLaps,
      tick |-> 0 ]

(****************************** input.ts ***********************************)
INPUT_NONE == [throttle |-> 0, brake |-> 0, steering |-> 0]

\* the input commands an InputSource hands out in this model
Inputs == {INPUT_NONE}

(*************************** physics-engine.ts *****************************)
\* Where a car can be: in front of, between and behind the gates on the line y = 1, and
\* one point beside the gates, from which a gate can be reached without crossing the
\* gates before it.
Positions == {vec2(2 * i - 1, 1) : i \in 0..NumCheckpoints} \cup {vec2(3, 3)}

CarStates ==
    {[position |-> p, rotation |-> 0, velocity |-> v, angularVelocity |-> 0] :
        p \in Positions, v \in {vec2(1, 0)}}

\* PhysicsEngine.update(car, input, deltaTime): the engine is a constructor argument of
\* GameLoop, so every new car state is possible.
PhysicsUpdate(car, input, deltaTime) == CarStates

(**************************** simple-physics.ts ****************************)
\* Speeds are counted in length units per clock unit, accelerations in length units per
\* clock unit squared, the steering rate in quarter turns per clock unit.
calculateThrottleEffect(currentSpeed, throttle, deltaTime, acceleration) ==
    IF throttle <= 0 THEN currentSpeed
    ELSE currentSpeed + acceleration * throttle * deltaTime

\* the brake stage, were the forward and backward branches not stopped at 0
calculateBrakeEffect_NoFloor(currentSpeed, brake, deltaTime, brakeAcceleration, minSteeringSpeed) ==
    IF brake <= 0 THEN currentSpeed
    ELSE IF currentSpeed > minSteeringSpeed
         THEN currentSpeed - brakeAcceleration * brake * deltaTime
    ELSE IF currentSpeed < -minSteeringSpeed
         THEN currentSpeed + brakeAcceleration * brake * deltaTime
    ELSE currentSpeed - (brakeAcceleration * brake * deltaTime) \div 2

\* the brake stage, were a car in reverse pushed further back at every speed
calculateBrakeEffect_AlwaysReverse(currentSpeed, brake, deltaTime, brakeAcceleration, minSteeringSpeed) ==
    IF brake <= 0 THEN currentSpeed
    ELSE IF currentSpeed > minSteeringSpeed
         THEN Max(0, currentSpeed - brakeAcceleration * brake * deltaTime)
    ELSE currentSpeed - (brakeAcceleration * brake * deltaTime) \div 2

\* reverseForce is brakeAcceleration * brake * deltaTime * 0.5: exact, deltaTime being
\* the even TickDuration
calculateBrakeEffect(currentSpeed, brake, deltaTime, brakeAcceleration, minSteeringSpeed) ==
    IF brake <= 0 THEN currentSpeed
    ELSE LET brakeForce == brakeAcceleration * brake * deltaTime
             reverseForce == (brakeAcceleration * brake * deltaTime) \div 2
         IN  IF currentSpeed > minSteeringSpeed THEN Max(0, currentSpeed - brakeForce)
             ELSE IF currentSpeed < -minSteeringSpeed THEN Min(0, currentSpeed + brakeForce)
             ELSE currentSpeed - reverseForce

\* friction, were the friction force subtracted whatever the speed left
calculateFrictionEffect_NoSnap(currentSpeed, throttle, brake, deltaTime, friction) ==
    IF throttle # 0 \/ brake # 0 THEN currentSpeed
    ELSE IF currentSpeed > 0 THEN currentSpeed - friction * deltaTime
    ELSE currentSpeed + friction * deltaTime

calculateFrictionEffect(currentSpeed, throttle, brake, deltaTime, friction) ==
    IF throttle # 0 \/ brake # 0 THEN currentSpeed
    ELSE LET frictionForce == friction * deltaTime
         IN  IF Abs(currentSpeed) < frictionForce THEN 0
             ELSE IF currentSpeed > 0 THEN currentSpeed - frictionForce
             ELSE currentSpeed + frictionForce

\* the clamp, were only the forward limit applied
clampSpeed_ForwardOnly(speed, maxSpeed, maxReverseSpeed) == Min(maxSpeed, speed)

clampSpeed(speed, maxSpeed, maxReverseSpeed) ==
    Max(-maxReverseSpeed, Min(maxSpeed, speed))

\* The configurations an engine is constructed with.  maxSpeed is 2 or 4 and
\* steeringRate 1, for which the steering amount of a tick is a whole number of quarter
\* turns at every whole speed.
PhysicsConfigs ==
    [ maxSpeed : {2, 4},
      maxReverseSpeed : {1, 2},
      acceleration : {1, 3},
      brakeAcceleration : {1, 2},
      friction : {1},
      steeringRate : {1},
      minSteeringSpeed : {1, 2} ]

createDefaultPhysicsConfig ==
    [ maxSpeed |-> 4, maxReverseSpeed |-> 2, acceleration |-> 3, brakeAcceleration |-> 2,
      friction |-> 1, steeringRate |-> 1, minSteeringSpeed |-> 1 ]

\* createInputCommand(throttle, brake, steering) with the keys of a keyboard
InputCommands == [throttle : {0, 1}, brake : {0, 1}, steering : {-1, 0, 1}]

\* speed < 0.001 is speed = 0 on whole speeds
getSignedSpeed(car, forward) ==
    LET speed == getCarSpeed(car)
    IN  IF speed = 0 THEN 0
        ELSE IF dot(car.velocity, forward) >= 0 THEN speed ELSE -speed

\* the rotation update, were steering applied at every speed
updateRotation_AtAnySpeed(cfg, rotation, speed, steering, deltaTime) ==
    rotation + ((steering * cfg.steeringRate * Min(cfg.maxSpeed, 2 * Abs(speed)) * deltaTime)
                    \div cfg.maxSpeed) * (IF speed >= 0 THEN 1 ELSE -1)

\* the rotation update, were the steering sense the same forwards and in reverse
updateRotation_SameSense(cfg, rotation, speed, steering, deltaTime) ==
    IF Abs(speed) < cfg.minSteeringSpeed THEN rotation
    ELSE rotation + (steering * cfg.steeringRate * Min(cfg.maxSpeed, 2 * Abs(speed)) * deltaTime)
                        \div cfg.maxSpeed

\* speedFactor is min(1, |speed| / (maxSpeed * 0.5)) = min(maxSpeed, 2 |speed|) / maxSpeed
updateRotation(cfg, rotation, speed, steering, deltaTime) ==
    IF Abs(speed) < cfg.minSteeringSpeed THEN rotation
    ELSE LET steeringAmount ==
                 (steering * cfg.steeringRate * Min(cfg.maxSpeed, 2 * Abs(speed)) * deltaTime)
                     \div cfg.maxSpeed
             direction == IF speed >= 0 THEN 1 ELSE -1
         IN  rotation + steeringAmount * direction

updateSpeed(cfg, currentSpeed, throttle, brake, deltaTime) ==
    LET afterThrottle == calculateThrottleEffect(currentSpeed, throttle, deltaTime,
                                                 cfg.acceleration)
        afterBrake == calculateBrakeEffect(afterThrottle, brake, deltaTime,
                                           cfg.brakeAcceleration, cfg.minSteeringSpeed)
        afterFriction == calculateFrictionEffect(afterBrake, throttle, brake, deltaTime,
                                                 cfg.friction)
    IN  clampSpeed(afterFriction, cfg.maxSpeed, cfg.maxReverseSpeed)

\* the time step of an update, were it the wall-clock time elapsed since the last call
timeStep_Elapsed(deltaTime, elapsed) == elapsed

\* the time step of an update is its deltaTime parameter
timeStep(deltaTime, elapsed) == deltaTime

\* the car object after an update, were the new values assigned to the car passed in
updateCarStateObject_Assigned == "same"

\* updateCarState returns an object literal: another object
updateCarStateObject == "fresh"

\* update, were the new velocity laid along the heading the car had before the tick
update_AlongOldHeading(cfg, car, input, deltaTime, elapsed) ==
    LET forward == fromAngle(car.rotation)
        currentSpeed == getSignedSpeed(car, forward)
        newRotation == updateRotation(cfg, car.rotation, currentSpeed, input.steering,
                                      deltaTime)
        newSpeed == updateSpeed(cfg, currentSpeed, input.throttle, input.brake, deltaTime)
        newVelocity == scale(forward, newSpeed)
        newCar == updateCarState(car, [position |-> add(car.position,
                                                        scale(newVelocity, deltaTime)),
                                       rotation |-> newRotation,
                                       velocity |-> newVelocity])
    IN  [car |-> newCar, passed |-> car]

\* engine.update(car, input, deltaTime) of an engine constructed with cfg, called when
\* elapsed wall-clock time has passed since the call before.  car: the CarState returned;
\* passed: what the CarState passed in reads after the call.
update(cfg, car, input, deltaTime, elapsed) ==
    LET dt == timeStep(deltaTime, elapsed)
        forward == fromAngle(car.rotation)
        currentSpeed == getSignedSpeed(car, forward)
        newRotation == updateRotation(cfg, car.rotation, currentSpeed, input.steering, dt)
        newSpeed == updateSpeed(cfg, currentSpeed, input.throttle, input.brake, dt)
        newForward == fromAngle(newRotation)
        newVelocity == scale(newForward, newSpeed)
        newPosition == add(car.position, scale(newVelocity, dt))
        newCar == updateCarState(car, [position |-> newPosition,
                                       rotation |-> newRotation,
                                       velocity |-> newVelocity])
    IN  [car |-> newCar,
         passed |-> IF updateCarStateObject = "same" THEN newCar ELSE car]

(************************* objects and references **************************)
\* The objects a GameState is made of: the GameState object itself, its car, its
\* lapProgress and the Set in it, its timing and the lapTimes array in it.
Parts == {"state", "car", "lapProgress", "checkpointsPassed", "timing", "lapTimes"}

NoHeld == [taken |-> FALSE]

\* A reference to the GameState st is obtained (getState(), the value step() returns,
\* the observer's argument): value is what it read then, now what it reads at present,
\* shares the objects of it that this.state still refers to.
Hold(st) == [taken |-> TRUE, value |-> st, now |-> st, shares |-> Parts]

\* the Set of a recorded checkpoint, were the checkpoint added to progress.checkpointsPassed
newCheckpointsPassedObject_SameSet == "same"

\* const newCheckpointsPassed = new Set(progress.checkpointsPassed): another object
newCheckpointsPassedObject == "fresh"

\* the lap record list, were the record pushed onto timing.lapTimes
newLapTimesObject_Pushed == "same"

\* const newLapTimes = [...timing.lapTimes, lapTime]: another object
newLapTimesObject == "fresh"

\* the state, were the updates assigned to the fields of the state passed in
updateGameStateObject_Assigned == "same"

\* updateGameState returns an object literal: another object
updateGameStateObject == "fresh"

\* What one crossing processed by processCheckpointCross does to the objects a held
\* GameState shares with the progress and timing being worked on: a completed lap and a
\* recorded checkpoint return new progress / timing objects, an ignored crossing returns
\* the objects it was given.
HeldCross(h, c) ==
    IF ~h.taken THEN h
    ELSE IF Len(c.result.timing.lapTimes) > Len(c.timing.lapTimes)
    THEN LET lapTime == c.result.timing.lapTimes[Len(c.result.timing.lapTimes)]
         IN  IF newLapTimesObject = "same"
             THEN [h EXCEPT
                     !.now = IF "lapTimes" \in h.shares
                             THEN [@ EXCEPT !.timing.lapTimes = Append(@, lapTime)]
                             ELSE @,
                     !.shares = @ \ {"lapProgress", "checkpointsPassed", "timing"}]
             ELSE [h EXCEPT
                     !.shares = @ \ {"lapProgress", "checkpointsPassed", "timing", "lapTimes"}]
    ELSE IF c.result.progress # c.progress
    THEN IF newCheckpointsPassedObject = "same"
         THEN [h EXCEPT
                 !.now = IF "checkpointsPassed" \in h.shares
                         THEN [@ EXCEPT !.lapProgress.checkpointsPassed = @ \cup {c.index}]
                         ELSE @,
                 !.shares = @ \ {"lapProgress"}]
         ELSE [h EXCEPT !.shares = @ \ {"lapProgress", "checkpointsPassed"}]
    ELSE h

RECURSIVE HeldCrossings(_, _)
HeldCrossings(h, crossings) ==
    IF crossings = <<>> THEN h
    ELSE HeldCrossings(HeldCross(h, Head(crossings)), Tail(crossings))

\* this.state = updateGameState(this.state, updates), giving newState; replaced: the
\* objects of the state for which the updates hold another object.
HeldAssign(h, newState, replaced) ==
    IF ~h.taken THEN h
    ELSE IF updateGameStateObject = "same" /\ "state" \in h.shares
    THEN [h EXCEPT !.now = newState, !.shares = Parts]
    ELSE [h EXCEPT !.shares = (@ \ {"state"}) \ replaced]

(*************************** keyboard-input.ts *****************************)
KeyNames == {"up", "down", "left", "right"}

\* the values of KeyboardEvent.code that are sent: the mapped ones, R and one other
KeyCodes == {"KeyW", "ArrowUp", "KeyS", "ArrowDown", "KeyA", "ArrowLeft", "KeyD",
             "ArrowRight", "KeyR", "Space"}

mapKey(code) ==
    CASE code \in {"KeyW", "ArrowUp"} -> "up"
      [] code \in {"KeyS", "ArrowDown"} -> "down"
      [] code \in {"KeyA", "ArrowLeft"} -> "left"
      [] code \in {"KeyD", "ArrowRight"} -> "right"
      [] OTHER -> "null"

\* the keys record with no key down
resetKeys == [k \in KeyNames |-> FALSE]

\* KeyboardInput.getInput()
KeyboardInput_getInput(k) ==
    [throttle |-> IF k.up THEN 1 ELSE 0,
     brake |-> IF k.down THEN 1 ELSE 0,
     steering |-> (IF k.left THEN -1 ELSE 0) + (IF k.right THEN 1 ELSE 0)]

(***************************** game-loop.ts ********************************)
\* performance.now(): the clock after drifting e units since the previous read
Read(c, e) == Min(c + e, MaxTime)

RECURSIVE SumSeq(_)
SumSeq(q) == IF q = <<>> THEN 0 ELSE Head(q) + SumSeq(Tail(q))

\* Drift between the successive clock reads of one synchronous handler (restart() reads
\* once, start() three times, the loop() it calls once): less than a tick in total.
Jitters == {j \in [1..5 -> 0..MaxJitter] : SumSeq(j) <= MaxJitter}
NoJitter == [i \in 1..5 |-> 0]

\* The fields a handler of GameLoop can change, as one record.
Machine ==
    [ state |-> state, running |-> running, animationFrameId |-> animationFrameId,
      accumulator |-> accumulator, lastTime |-> lastTime, listening |-> listening,
      keys |-> keys, sinceStop |-> sinceStop,
      clock |-> clock, orphanFrames |-> orphanFrames,
      accepted |-> accepted, lapWitness |-> lapWitness, rendered |-> <<>>,
      held |-> held ]

\* The same inside a frame callback, which has made the render calls of rendered.
FrameMachine == [Machine EXCEPT !.rendered = rendered]

\* this.animationFrameId = requestAnimationFrame(() => this.loop()): a new callback is
\* queued; a callback still queued under the previous id stays queued, unreferenced.
RequestFrame(M) ==
    [M EXCEPT !.orphanFrames = IF M.animationFrameId = "pending" THEN @ + 1 ELSE @,
              !.animationFrameId = "pending"]

\* loop(), from reading the clock to the accumulator update (the caller has checked running)
LoopEnter(M, e) ==
    LET currentTime == Read(M.clock, e)
        frameTime == Min(currentTime - M.lastTime, FrameCap)
    IN  [M EXCEPT !.clock = currentTime,
                  !.lastTime = currentTime,
                  !.accumulator = @ + frameTime]

\* this.renderer.render(this.state, alpha), alpha = accumulator / tickDuration: the call
\* is recorded with the accumulator, alpha's numerator.
Render(M) ==
    [M EXCEPT !.rendered = Append(@, [state |-> M.state, accumulator |-> M.accumulator])]

\* loop(), after the while loop: alpha, render, requestAnimationFrame
LoopRender(M) == RequestFrame(Render(M))

\* loop() called by start(): lastTime was read less than a tick ago and accumulator is 0,
\* so the while loop has nothing to drain.
LoopFromStart(M, e) == IF ~M.running THEN M ELSE LoopRender(LoopEnter(M, e))

\* stop(), were the input source to keep its key state
stop_KeepsKeys(M) ==
    [M EXCEPT !.running = FALSE, !.listening = FALSE, !.animationFrameId = "null",
              !.sinceStop = [held |-> M.keys # resetKeys, keydown |-> FALSE]]

\* this.inputSource.stop() removes the listeners and resets the keys
stop(M) ==
    [M EXCEPT !.running = FALSE, !.listening = FALSE, !.animationFrameId = "null",
              !.keys = resetKeys,
              !.sinceStop = [held |-> M.keys # resetKeys, keydown |-> FALSE]]

\* start() leaving the accumulator as it is
accumulatorAtStart_Kept(acc) == acc

\* this.accumulator = 0 in start()
accumulatorAtStart(acc) == 0

\* the state start() assigns: racing, with the two start times read from the clock
StartState(st, raceStart, lapStart) ==
    updateGameState(st, [status |-> "racing",
                         timing |-> [st.timing EXCEPT !.raceStartTime = raceStart,
                                                      !.lapStartTime = lapStart]])

\* start(), were it to go ahead whether the loop is running or not
start_Unguarded(M, j) ==
    LET t1 == Read(M.clock, j[1])
        t2 == Read(t1, j[2])
        t3 == Read(t2, j[3])
        M1 == [M EXCEPT
                 !.running = TRUE,
                 !.listening = TRUE,
                 !.lastTime = t1,
                 !.accumulator = accumulatorAtStart(@),
                 !.clock = t3,
                 !.state = StartState(M.state, t2, t3),
                 !.held = HeldAssign(@, StartState(M.state, t2, t3), {"timing"})]
    IN  LoopFromStart(M1, j[4])

\* j: the drift before each of the four clock reads
start(M, j) ==
    IF M.running THEN M
    ELSE LET t1 == Read(M.clock, j[1])
             t2 == Read(t1, j[2])
             t3 == Read(t2, j[3])
             M1 == [M EXCEPT
                      !.running = TRUE,
                      !.listening = TRUE,
                      !.lastTime = t1,
                      !.accumulator = accumulatorAtStart(@),
                      !.clock = t3,
                      !.state = StartState(M.state, t2, t3),
                      !.held = HeldAssign(@, StartState(M.state, t2, t3), {"timing"})]
         IN  LoopFromStart(M1, j[4])

\* the car of restart(), keeping the velocity it had
restartCar_KeepsVelocity(st) ==
    [position |-> st.track.startPosition,
     rotation |-> st.track.startRotation,
     velocity |-> st.car.velocity,
     angularVelocity |-> 0]

\* the car of restart(): at the track's start pose, at rest
restartCar(st) ==
    [position |-> st.track.startPosition,
     rotation |-> st.track.startRotation,
     velocity |-> vec2(0, 0),
     angularVelocity |-> 0]

\* the state of restart(), were the lap counter carried over into the new race
RestartState_KeepsCurrentLap(st, now) ==
    updateGameState(st,
        [status |-> "racing",
         car |-> restartCar(st),
         lapProgress |-> [lastCheckpointIndex |-> 0, checkpointsPassed |-> {0}],
         timing |-> [raceStartTime |-> now, lapStartTime |-> now,
                     lapTimes |-> <<>>, currentLap |-> st.timing.currentLap],
         tick |-> 0])

\* the state restart() assigns before it calls start()
RestartState(st, now) ==
    updateGameState(st,
        [status |-> "racing",
         car |-> restartCar(st),
         lapProgress |-> [lastCheckpointIndex |-> 0, checkpointsPassed |-> {0}],
         timing |-> [raceStartTime |-> now, lapStartTime |-> now,
                     lapTimes |-> <<>>, currentLap |-> 1],
         tick |-> 0])

restart(M, j) ==
    LET M1 == stop(M)
        now == Read(M1.clock, j[1])
        M2 == [M1 EXCEPT
                 !.clock = now,
                 !.state = RestartState(M1.state, now),
                 !.held = HeldAssign(@, RestartState(M1.state, now), Parts \ {"state"}),
                 !.accepted = <<>>,
                 !.lapWitness = <<>>]
    IN  start(M2, Tail(j))

\* History of accepted crossings, replayed over the crossings of one updateLapProgress.
RECURSIVE Replay(_, _, _)
Replay(crossings, acc, wit) ==
    IF crossings = <<>> THEN [accepted |-> acc, lapWitness |-> wit]
    ELSE LET c == Head(crossings)
         IN  IF Len(c.result.timing.lapTimes) > Len(c.timing.lapTimes)
             THEN Replay(Tail(crossings), <<>>, Append(wit, acc))
             ELSE IF c.result.progress # c.progress
                  THEN Replay(Tail(crossings), Append(acc, c.index), wit)
                  ELSE Replay(Tail(crossings), acc, wit)

\* const input = this.inputSource.getInput() in the while loop of loop(), sampling only
\* for the first step of the frame
getInput_FirstOnly(s, current) ==
    IF s.reads = 0 THEN [reads |-> 1, value |-> current] ELSE s

\* const input = this.inputSource.getInput() in the while loop of loop(): one more call
\* of getInput(), returning the command the input source holds
getInput(s, current) == [reads |-> s.reads + 1, value |-> current]

\* What the registered observer does when it is called: nothing, stop() or restart().
Reactions == {"none", "stop", "restart"}

\* What is called when step() notifies: nothing when no observer is registered.
ReactionsOf(cb) == IF cb = "null" THEN {"none"} ELSE Reactions

\* The calls it makes read the clock without drift.
Observer(M, react) ==
    CASE react = "none" -> M
      [] react = "stop" -> stop(M)
      [] react = "restart" -> restart(M, NoJitter)

\* getState()
getState(M) == M.state

\* the guard of step(), letting a game in countdown be stepped
IsRacing_NotFinished(st) == st.status # "finished"

\* the guard of step(): only a racing game is stepped
IsRacing(st) == st.status = "racing"

\* the notification, left out for the state that ends the race
Notify_NotWhenFinished(M, cb, react) ==
    IF cb = "null" \/ M.state.status = "finished"
    THEN [M |-> M, notified |-> 0, notifiedState |-> Null]
    ELSE [M |-> Observer(M, react), notified |-> 1, notifiedState |-> M.state]

\* this.onStateChange?.(this.state): cb is this.onStateChange, react what the observer
\* does.  Returns the machine after the call, the number of calls made and the argument.
Notify(M, cb, react) ==
    IF cb = "null" THEN [M |-> M, notified |-> 0, notifiedState |-> Null]
    ELSE [M |-> Observer(M, react), notified |-> 1, notifiedState |-> M.state]

\* step(input).  newCar: the physics engine's result; cb: this.onStateChange; react: what
\* the observer does.  Returns the machine after the call and the record of the call.
step(M, input, newCar, cb, react) ==
    IF ~IsRacing(M.state)
    THEN [M |-> M, call |-> [ran |-> "noop", input |-> input, notified |-> 0,
                             returned |-> M.state]]
    ELSE LET now == Read(M.clock, 0)
             r == updateLapProgress(M.state.lapProgress, M.state.timing,
                                    M.state.track.checkpoints, M.state.car.position,
                                    newCar.position, M.state.totalLaps, now)
             committed == updateGameState(M.state,
                             [car |-> newCar,
                              lapProgress |-> r.lapProgress,
                              timing |-> r.timing,
                              tick |-> M.state.tick + 1,
                              status |-> IF r.raceFinished THEN "finished" ELSE "racing"])
             lapRead == Len(r.timing.lapTimes) > Len(M.state.timing.lapTimes)
             hist == Replay(r.crossings, M.accepted, M.lapWitness)
             M1 == [M EXCEPT !.state = committed,
                             !.clock = IF lapRead THEN now ELSE @,
                             !.accepted = hist.accepted,
                             !.lapWitness = hist.lapWitness,
                             !.held = HeldAssign(HeldCrossings(@, r.crossings),
                                                 committed, {"car"})]
             n == Notify(M1, cb, react)
         IN  [M |-> n.M,
              call |-> [ran |-> "tick", input |-> input, now |-> now, committed |-> committed,
                        crossings |-> r.crossings, raceFinished |-> r.raceFinished,
                        notified |-> n.notified, notifiedState |-> n.notifiedState,
                        returned |-> getState(n.M)]]

(******************************* the machine *******************************)
\* the GameLoop after construction
GameInit ==
    /\ clock = 0
    /\ state = createInitialGameState(Track, 0)
    /\ running = FALSE
    /\ animationFrameId = "null"
    /\ accumulator = 0
    /\ lastTime = 0
    /\ onStateChange = "null"
    /\ listening = FALSE
    /\ keys = resetKeys
    /\ sinceStop = [held |-> FALSE, keydown |-> FALSE]
    /\ orphanFrames = 0
    /\ pc = "idle"
    /\ frameSteps = <<>>
    /\ frameStart = NoFrame
    /\ frameCalls = 0
    /\ sampled = [reads |-> 0, value |-> Null]
    /\ rendered = <<>>
    /\ held = NoHeld
    /\ restarted = FALSE
    /\ startIgnored = FALSE
    /\ lastStep = NoStep
    /\ accepted = <<>>
    /\ lapWitness = <<>>

\* an engine with the default configuration and a car at rest, not in use
PhysicsIdle ==
    /\ config = createDefaultPhysicsConfig
    /\ car1 = createCarState(VEC2_ZERO, 0)
    /\ car2 = createCarState(VEC2_ZERO, 0)
    /\ physicsTick = 0

\* no library call under way
LibraryIdle ==
    /\ args = NoArgs
    /\ returned = NoResult

Init == GameInit /\ PhysicsIdle /\ LibraryIdle

\* The handler ends with the machine M.
Commit(M) ==
    /\ M.orphanFrames <= MaxOrphans
    /\ state' = M.state
    /\ running' = M.running
    /\ animationFrameId' = M.animationFrameId
    /\ accumulator' = M.accumulator
    /\ lastTime' = M.lastTime
    /\ listening' = M.listening
    /\ keys' = M.keys
    /\ sinceStop' = M.sinceStop
    /\ clock' = M.clock
    /\ orphanFrames' = M.orphanFrames
    /\ accepted' = M.accepted
    /\ lapWitness' = M.lapWitness
    /\ rendered' = M.rendered
    /\ held' = M.held
    /\ UNCHANGED <<physicsVars, libraryVars>>

\* gameLoop.start(), the clock drifting as one of J between its reads
StartWith(J) ==
    /\ pc = "idle"
    /\ \E j \in J : Commit(start(Machine, Tail(j)))
    /\ lastStep' = NoStep
    /\ restarted' = FALSE
    /\ startIgnored' = running
    /\ UNCHANGED <<onStateChange, pc, frameSteps, frameStart, frameCalls, sampled>>

\* gameLoop.stop()
Stop ==
    /\ pc = "idle"
    /\ Commit(stop(Machine))
    /\ lastStep' = NoStep
    /\ restarted' = FALSE
    /\ startIgnored' = FALSE
    /\ UNCHANGED <<onStateChange, pc, frameSteps, frameStart, frameCalls, sampled>>

\* gameLoop.restart(), e.g. from the R key handler, the clock drifting as one of J
\* between its reads
RestartWith(J) ==
    /\ pc = "idle"
    /\ \E j \in J : Commit(restart(Machine, j))
    /\ lastStep' = NoStep
    /\ restarted' = TRUE
    /\ startIgnored' = FALSE
    /\ UNCHANGED <<onStateChange, pc, frameSteps, frameStart, frameCalls, sampled>>

Start == StartWith(Jitters)

Restart == RestartWith(Jitters)

\* start() and restart() during which the clock does not advance
PromptStart == StartWith({NoJitter})

PromptRestart == RestartWith({NoJitter})

\* gameLoop.setOnStateChange(callback)
SetOnStateChange ==
    /\ pc = "idle"
    /\ onStateChange' = "callback"
    /\ lastStep' = NoStep
    /\ restarted' = FALSE
    /\ startIgnored' = FALSE
    /\ rendered' = <<>>
    /\ UNCHANGED <<state, running, animationFrameId, accumulator, lastTime, listening, keys, sinceStop,
                   clock, orphanFrames, pc, frameSteps, frameStart, frameCalls, sampled,
                   held, accepted, lapWitness, physicsVars, libraryVars>>

\* gameLoop.step(input) called from outside the loop (headless use); the calls that
\* commit a tick are taken up to tick maxTick
StepCallUpTo(maxTick) ==
    /\ pc = "idle"
    /\ state.status = "racing" => state.tick < maxTick
    /\ \E input \in Inputs :
       \E newCar \in PhysicsUpdate(state.car, input, TickDuration), react \in ReactionsOf(onStateChange) :
          LET r == step(Machine, input, newCar, onStateChange, react)
          IN  /\ Commit(r.M)
              /\ lastStep' = r.call
              /\ restarted' = FALSE
              /\ startIgnored' = FALSE
    /\ UNCHANGED <<onStateChange, pc, frameSteps, frameStart, frameCalls, sampled>>

StepCall == StepCallUpTo(MaxTick)

HeadlessStep == StepCallUpTo(MaxLapTick)

\* A queued frame callback runs loop() up to the while loop: the one animationFrameId
\* holds, or one it no longer holds.
FrameBegin ==
    /\ pc = "idle"
    /\ \E M0 \in ( IF animationFrameId = "pending"
                   THEN {[Machine EXCEPT !.animationFrameId = "stale"]} ELSE {} )
                 \cup
                 ( IF orphanFrames > 0
                   THEN {[Machine EXCEPT !.orphanFrames = @ - 1]} ELSE {} ) :
          IF ~M0.running
          THEN Commit(M0) /\ pc' = "idle" /\ frameStart' = NoFrame
          ELSE /\ Commit(LoopEnter(M0, 0))
               /\ pc' = "drain"
               /\ frameStart' = [accumulator |-> accumulator,
                                 elapsed |-> Read(clock, 0) - lastTime]
    /\ frameSteps' = <<>>
    /\ frameCalls' = 0
    /\ sampled' = [reads |-> 0, value |-> Null]
    /\ lastStep' = NoStep
    /\ restarted' = FALSE
    /\ startIgnored' = FALSE
    /\ UNCHANGED onStateChange

\* One iteration of the while loop of loop()
FrameStep ==
    /\ pc = "drain"
    /\ accumulator >= TickDuration
    /\ \E current \in Inputs :
          LET s == getInput(sampled, current)
              input == s.value
          IN  \E newCar \in PhysicsUpdate(state.car, input, TickDuration), react \in ReactionsOf(onStateChange) :
                 LET r == step(FrameMachine, input, newCar, onStateChange, react)
                 IN  /\ Commit([r.M EXCEPT !.accumulator = @ - TickDuration])
                     /\ lastStep' = r.call
                     /\ restarted' = FALSE
                     /\ startIgnored' = FALSE
                     /\ sampled' = s
                     /\ frameCalls' = frameCalls + 1
                     /\ frameSteps' = IF r.call.ran = "tick"
                                      THEN Append(frameSteps, r.call.committed.tick)
                                      ELSE frameSteps
    /\ UNCHANGED <<onStateChange, pc, frameStart>>

\* The end of loop(): render and request the next frame
FrameRender ==
    /\ pc = "drain"
    /\ accumulator < TickDuration
    /\ Commit(LoopRender(FrameMachine))
    /\ pc' = "idle"
    /\ frameSteps' = <<>>
    /\ frameStart' = NoFrame
    /\ frameCalls' = 0
    /\ sampled' = [reads |-> 0, value |-> Null]
    /\ lastStep' = NoStep
    /\ restarted' = FALSE
    /\ startIgnored' = FALSE
    /\ UNCHANGED onStateChange

\* Time passes between two handlers.
TimePasses ==
    /\ pc = "idle"
    /\ clock < MaxTime
    /\ clock' = clock + 1
    /\ lastStep' = NoStep
    /\ restarted' = FALSE
    /\ startIgnored' = FALSE
    /\ rendered' = <<>>
    /\ UNCHANGED <<state, running, animationFrameId, accumulator, lastTime, onStateChange,
                   listening, keys, sinceStop, orphanFrames, pc, frameSteps, frameStart, frameCalls, sampled,
                   held, accepted, lapWitness, physicsVars, libraryVars>>

Next ==
    \/ Start
    \/ Stop
    \/ Restart
    \/ SetOnStateChange
    \/ StepCall
    \/ FrameBegin
    \/ FrameStep
    \/ FrameRender
    \/ TimePasses

Spec == Init /\ [][Next]_vars

\* A race driven by step() calls alone, without frames: the lap tracker over longer races.
LapNext ==
    \/ Start
    \/ Restart
    \/ HeadlessStep
    \/ TimePasses

LapSpec == Init /\ [][LapNext]_vars

RaceStep == StepCallUpTo(MaxRaceTick)

\* A race driven by step() calls between which the loop is started, stopped and
\* restarted.
RaceNext ==
    \/ Start
    \/ Stop
    \/ Restart
    \/ RaceStep
    \/ TimePasses

RaceSpec == Init /\ [][RaceNext]_vars

\* KeyboardInput.onKeyDown(e), the listeners being attached: R calls the restart callback
\* main has set, a mapped key is recorded as down
onKeyDown(M, code) ==
    IF code = "KeyR" THEN restart(M, NoJitter)
    ELSE IF mapKey(code) # "null"
         THEN [M EXCEPT !.keys = [@ EXCEPT ![mapKey(code)] = TRUE],
                        !.sinceStop = [@ EXCEPT !.keydown = TRUE]]
         ELSE [M EXCEPT !.sinceStop = [@ EXCEPT !.keydown = TRUE]]

\* KeyboardInput.onKeyUp(e)
onKeyUp(M, code) ==
    IF mapKey(code) # "null"
    THEN [M EXCEPT !.keys = [@ EXCEPT ![mapKey(code)] = FALSE]]
    ELSE M

\* a keydown event is delivered to the window
KeyDown ==
    /\ pc = "idle"
    /\ listening
    /\ \E code \in KeyCodes : Commit(onKeyDown(Machine, code))
    /\ lastStep' = NoStep
    /\ restarted' = FALSE
    /\ startIgnored' = FALSE
    /\ UNCHANGED <<onStateChange, pc, frameSteps, frameStart, frameCalls, sampled>>

\* a keyup event is delivered to the window
KeyUp ==
    /\ pc = "idle"
    /\ listening
    /\ \E code \in KeyCodes : Commit(onKeyUp(Machine, code))
    /\ lastStep' = NoStep
    /\ restarted' = FALSE
    /\ startIgnored' = FALSE
    /\ UNCHANGED <<onStateChange, pc, frameSteps, frameStart, frameCalls, sampled>>

\* The keyboard and the calls that start and stop its listeners.
KeyboardNext ==
    \/ PromptStart
    \/ Stop
    \/ PromptRestart
    \/ KeyDown
    \/ KeyUp
    \/ TimePasses

KeyboardSpec == Init /\ [][KeyboardNext]_vars

\* gameLoop.getState(): the caller keeps the reference it is given (one caller, once).
GetState ==
    /\ pc = "idle"
    /\ ~held.taken
    /\ held' = Hold(getState(Machine))
    /\ rendered' = <<>>
    /\ restarted' = FALSE
    /\ startIgnored' = FALSE
    /\ lastStep' = NoStep
    /\ UNCHANGED <<state, running, animationFrameId, accumulator, lastTime, onStateChange,
                   listening, keys, sinceStop, clock, orphanFrames, pc, frameSteps, frameStart, frameCalls,
                   sampled, accepted, lapWitness, physicsVars, libraryVars>>

HeldStep == StepCallUpTo(MaxHeldTick)

\* A short race driven by step() calls, one of whose states a caller holds on to, with
\* the clock standing still: which objects are shared does not depend on the time.
HeldNext ==
    \/ PromptStart
    \/ Stop
    \/ PromptRestart
    \/ HeldStep
    \/ GetState

HeldSpec == Init /\ [][HeldNext]_vars

\* the wall-clock times that can pass between two calls of engine.update
Elapsed == 1..(TickDuration + 1)

\* the cars a run starts from: at the origin, heading along x or y, at rest or faster
\* than any engine allows
StartCars ==
    {[createCarState(VEC2_ZERO, r) EXCEPT !.velocity = scale(fromAngle(r), v)] :
        r \in {0, 1}, v \in {0, MaxStartSpeed}}

\* Two runs on engines constructed with the same configuration start from the same car.
PhysicsInit ==
    /\ config \in PhysicsConfigs
    /\ \E car \in StartCars : car1 = car /\ car2 = car
    /\ physicsTick = 0
    /\ GameInit
    /\ LibraryIdle

\* car = engine.update(car, input, dt) in both runs, with the same input, at whatever
\* pace each run is made
PhysicsTick ==
    /\ physicsTick < MaxPhysicsTick
    /\ \E input \in InputCommands, e1, e2 \in Elapsed :
          /\ car1' = update(config, car1, input, TickDuration, e1).car
          /\ car2' = update(config, car2, input, TickDuration, e2).car
    /\ physicsTick' = physicsTick + 1
    /\ UNCHANGED <<config, gameVars, libraryVars>>

PhysicsNext == PhysicsTick

PhysicsSpec == PhysicsInit /\ [][PhysicsNext]_vars

\* the inputs with throttle and brake released
CoastInputs == {input \in InputCommands : input.throttle = 0 /\ input.brake = 0}

\* A car at any speed an engine with configuration cfg lets it have
CoastCars(cfg) ==
    {[createCarState(VEC2_ZERO, r) EXCEPT !.velocity = scale(fromAngle(r), v)] :
        r \in {0, 1}, v \in (-cfg.maxReverseSpeed)..cfg.maxSpeed}

CoastInit ==
    /\ config \in PhysicsConfigs
    /\ \E car \in CoastCars(config) : car1 = car /\ car2 = car
    /\ physicsTick = 0
    /\ GameInit
    /\ LibraryIdle

\* car = engine.update(car, input, dt) with throttle and brake released
Coast ==
    /\ physicsTick < MaxCoastTick
    /\ \E input \in CoastInputs, e1, e2 \in Elapsed :
          /\ car1' = update(config, car1, input, TickDuration, e1).car
          /\ car2' = update(config, car2, input, TickDuration, e2).car
    /\ physicsTick' = physicsTick + 1
    /\ UNCHANGED <<config, gameVars, libraryVars>>

CoastNext == Coast

\* A car left to coast: the updates keep coming.
CoastSpec == CoastInit /\ [][CoastNext]_vars /\ WF_vars(Coast)

\* the inputs with the throttle released and the brake held
BrakeInputs == {input \in InputCommands : input.throttle = 0 /\ input.brake > 0}

\* Configurations whose reverse limit lies within, or well beyond, the speed at which the
\* brake turns a reversing car back (in GAME_CONFIG.CAR: 150 against 10 + 3.33)
BrakeConfigs ==
    [ maxSpeed : {2, 4},
      maxReverseSpeed : {2, 6},
      acceleration : {1},
      brakeAcceleration : {1, 2},
      friction : {1},
      steeringRate : {1},
      minSteeringSpeed : {1, 2} ]

\* a car at rest, as in the test of the reverse limit
BrakeInit ==
    /\ config \in BrakeConfigs
    /\ \E r \in {0, 1} : car1 = createCarState(VEC2_ZERO, r) /\ car2 = createCarState(VEC2_ZERO, r)
    /\ physicsTick = 0
    /\ GameInit
    /\ LibraryIdle

\* car = engine.update(car, input, dt) with the brake held and no throttle
Brake ==
    /\ physicsTick < MaxBrakeTick
    /\ \E input \in BrakeInputs, e1, e2 \in Elapsed :
          /\ car1' = update(config, car1, input, TickDuration, e1).car
          /\ car2' = update(config, car2, input, TickDuration, e2).car
    /\ physicsTick' = physicsTick + 1
    /\ UNCHANGED <<config, gameVars, libraryVars>>

BrakeNext == Brake

BrakeSpec == BrakeInit /\ [][BrakeNext]_vars

\* the points of a small grid
GridPoints == {vec2(x, y) : x, y \in 0..GridMax}

\* the segments between two grid points, those of length zero included
GridSegments == {createLineSegment(a, b) : a, b \in GridPoints}

\* Two segments are about to be intersected.
IntersectionInit ==
    /\ args \in [seg1 : GridSegments, seg2 : GridSegments]
    /\ returned = NoResult
    /\ GameInit
    /\ PhysicsIdle

\* lineSegmentIntersection(seg1, seg2)
Intersect ==
    /\ ~returned.done
    /\ returned' = Done(lineSegmentIntersection(args.seg1, args.seg2))
    /\ UNCHANGED <<args, gameVars, physicsVars>>

IntersectionNext == Intersect

IntersectionSpec == IntersectionInit /\ [][IntersectionNext]_vars

\* the times formatted: minutes, seconds and milliseconds with one, two and three
\* digits, at the ends of their ranges, up to MaxMinutes minutes
TimeSamples ==
    {m * 60000 + sec * 1000 + ms :
        m \in {0, 1, 2, 9, 10, MaxMinutes - 1, MaxMinutes},
        sec \in {0, 1, 5, 9, 10, 59},
        ms \in {0, 1, 9, 10, 99, 100, 500, 750, 999}}

FormatInit ==
    /\ args \in [ms : TimeSamples]
    /\ returned = NoResult
    /\ GameInit
    /\ PhysicsIdle

\* formatTime(ms)
Format ==
    /\ ~returned.done
    /\ returned' = Done(formatTime(args.ms))
    /\ UNCHANGED <<args, gameVars, physicsVars>>

FormatNext == Format

FormatSpec == FormatInit /\ [][FormatNext]_vars

\* the rectangles tested: around the middle or a corner of the grid, lying or upright
Rectangles ==
    [center : {vec2(1, 1), vec2(0, 0)}, width : {2, 4}, height : {2}, rotation : {0, 1}]

RectangleInit ==
    /\ \E rect \in Rectangles, line \in GridSegments :
          args = [center |-> rect.center, width |-> rect.width, height |-> rect.height,
                  rotation |-> rect.rotation, line |-> line]
    /\ returned = NoResult
    /\ GameInit
    /\ PhysicsIdle

\* rectangleIntersectsLine(center, width, height, rotation, line)
RectangleTest ==
    /\ ~returned.done
    /\ returned' = Done(rectangleIntersectsLine(args.center, args.width, args.height,
                                                args.rotation, args.line))
    /\ UNCHANGED <<args, gameVars, physicsVars>>

RectangleNext == RectangleTest

RectangleSpec == RectangleInit /\ [][RectangleNext]_vars

\* where a car is parked: on the gates, at their ends, between and beside them
ParkedPositions == {vec2(x, y) : x \in 0..(2 * NumCheckpoints - 1), y \in 0..3}

\* the progress of a lap after the checkpoints up to last
ProgressUpTo(last) == [lastCheckpointIndex |-> last, checkpointsPassed |-> 0..last]

\* a racing game whose car stands at position, at rest or not yet moved by its velocity
ParkedState(position, velocity, last) ==
    updateGameState(createInitialGameState(Track, 0),
        [status |-> "racing",
         car |-> updateCarState(createCarState(position, 0), [velocity |-> velocity]),
         lapProgress |-> ProgressUpTo(last)])

ParkedInit ==
    /\ args \in [position : ParkedPositions,
                  velocity : {VEC2_ZERO, vec2(1, 0)},
                  last : 0..(NumCheckpoints - 1)]
    /\ returned = NoResult
    /\ GameInit
    /\ PhysicsIdle

\* step(input) on a GameLoop holding that state, with a physics engine that returns the
\* car where it is
ParkedStep ==
    /\ ~returned.done
    /\ LET st == ParkedState(args.position, args.velocity, args.last)
       IN  returned' = Done(step([Machine EXCEPT !.state = st], INPUT_NONE, st.car,
                                 "null", "none").call)
    /\ UNCHANGED <<args, gameVars, physicsVars>>

ParkedNext == ParkedStep

ParkedSpec == ParkedInit /\ [][ParkedNext]_vars

(****************************** properties *********************************)
\* the crossings processed by the step() call of the latest transition
Crossings == IF lastStep.ran = "tick" THEN lastStep.crossings ELSE <<>>

ExpectedNext(progress) == (progress.lastCheckpointIndex + 1) % NumCheckpoints

OthersPassed(progress) == \A i \in 1..(NumCheckpoints - 1) : i \in progress.checkpointsPassed

\* C1: a crossing of a non-zero checkpoint i changes the progress only when
\* i = (lastCheckpointIndex + 1) mod checkpointCount, and then records exactly i; for any
\* other non-zero i, lastCheckpointIndex and the passed set are left unchanged.
C1_OutOfOrderCrossingIgnored ==
    \A k \in DOMAIN Crossings :
        LET c == Crossings[k]
        IN  c.index # 0 =>
              /\ c.index # ExpectedNext(c.progress) => c.result.progress = c.progress
              /\ c.result.progress # c.progress =>
                    /\ c.index = ExpectedNext(c.progress)
                    /\ c.result.progress.lastCheckpointIndex = c.index
                    /\ c.result.progress.checkpointsPassed =
                           c.progress.checkpointsPassed \cup {c.index}

\* checkpoint k+2 is crossed while lastCheckpointIndex = k and k+1 is not passed
C1_Witness ==
    \E k \in DOMAIN Crossings :
        LET c == Crossings[k]
        IN  /\ c.index = c.progress.lastCheckpointIndex + 2
            /\ (c.progress.lastCheckpointIndex + 1) \notin c.progress.checkpointsPassed
            /\ c.result.progress = c.progress

\* C2: every lap record was appended after the accepted crossings of checkpoints
\* 1, 2, ..., N-1, in exactly that order, since the previous lap record or the restart.
C2_LapNeedsEveryCheckpointInOrder ==
    /\ Len(lapWitness) = Len(state.timing.lapTimes)
    /\ \A k \in DOMAIN lapWitness : lapWitness[k] = [i \in 1..(NumCheckpoints - 1) |-> i]

\* a lap record exists
C2_Witness == Len(state.timing.lapTimes) >= 1 /\ Len(lapWitness) >= 1

\* C3: crossing checkpoint 0 with every other checkpoint passed appends exactly one lap
\* record {currentLap, now - lapStartTime}, resets the progress to lastCheckpointIndex 0
\* and passed {0}, increments currentLap and sets lapStartTime to now; raceStartTime and
\* the earlier lap records are unchanged.
C3_LapCompletion ==
    \A k \in DOMAIN Crossings :
        LET c == Crossings[k]
        IN  (c.index = 0 /\ OthersPassed(c.progress)) =>
              /\ c.result.timing.lapTimes =
                     Append(c.timing.lapTimes,
                            [lapNumber |-> c.timing.currentLap,
                             timeMs |-> lastStep.now - c.timing.lapStartTime])
              /\ c.result.progress = [lastCheckpointIndex |-> 0, checkpointsPassed |-> {0}]
              /\ c.result.timing.currentLap = c.timing.currentLap + 1
              /\ c.result.timing.lapStartTime = lastStep.now
              /\ c.result.timing.raceStartTime = c.timing.raceStartTime

\* a lap is completed at a time when the lap did not start with the race
C3_Witness ==
    \E k \in DOMAIN Crossings :
        LET c == Crossings[k]
        IN  /\ c.index = 0
            /\ OthersPassed(c.progress)
            /\ c.timing.lapStartTime # c.timing.raceStartTime
            /\ lastStep.now > c.timing.lapStartTime

\* C4: crossing checkpoint 0 while some checkpoint 1..N-1 is not passed changes nothing
\* and does not signal the end of the race.
C4_EarlyFinishLineIgnored ==
    \A k \in DOMAIN Crossings :
        LET c == Crossings[k]
        IN  (c.index = 0 /\ ~OthersPassed(c.progress)) =>
              c.result = [progress |-> c.progress, timing |-> c.timing, raceFinished |-> FALSE]

\* checkpoint 0 is crossed after checkpoint 1 and before the last checkpoint
C4_Witness ==
    \E k \in DOMAIN Crossings :
        LET c == Crossings[k]
        IN  /\ c.index = 0
            /\ 1 \in c.progress.checkpointsPassed
            /\ (NumCheckpoints - 1) \notin c.progress.checkpointsPassed

\* C5: crossing a non-zero checkpoint that is already in the passed set leaves the
\* progress and the timing unchanged.
C5_RecrossingIdempotent ==
    \A k \in DOMAIN Crossings :
        LET c == Crossings[k]
        IN  (c.index # 0 /\ c.index \in c.progress.checkpointsPassed) =>
              /\ c.result.progress = c.progress
              /\ c.result.timing = c.timing

\* a passed checkpoint that is not the last one passed is crossed again
C5_Witness ==
    \E k \in DOMAIN Crossings :
        LET c == Crossings[k]
        IN  /\ c.index # 0
            /\ c.index \in c.progress.checkpointsPassed
            /\ c.index # c.progress.lastCheckpointIndex

\* C6: a tick in which a lap is completed while currentLap (before the increment) >=
\* totalLaps has raceFinished = TRUE and commits status "finished", whichever other
\* checkpoints the same motion segment crosses.
C6_FinalLapFinishesRace ==
    ( /\ lastStep.ran = "tick"
      /\ \E k \in DOMAIN Crossings :
            LET c == Crossings[k]
            IN  /\ Len(c.result.timing.lapTimes) > Len(c.timing.lapTimes)
                /\ c.timing.currentLap >= lastStep.committed.totalLaps )
    => ( lastStep.raceFinished /\ lastStep.committed.status = "finished" )

\* C7: step() while the status is not "racing" returns the current state and changes
\* nothing: the state (car, lapProgress, timing, tick), the clock and the crossing history
\* are as before, physics and lap tracker are not run, the observer is not called.
C7_StepOutsideRacingIsNoop ==
    [][ (state.status # "racing" /\ lastStep' # NoStep) =>
            /\ lastStep'.ran = "noop"
            /\ lastStep'.notified = 0
            /\ lastStep'.returned = state
            /\ state' = state
            /\ UNCHANGED <<clock, accepted, lapWitness, running, onStateChange>> ]_vars

\* step() has been called on a finished race with an observer registered
C7_Witness ==
    /\ lastStep.ran = "noop"
    /\ state.status = "finished"
    /\ onStateChange = "callback"

\* C8: the status changes only by countdown -> racing (start), racing -> finished (a step
\* in which the final lap is completed) and any -> racing (restart); a finished race stays
\* finished until restart() is called.
C8_StatusTransitions ==
    [][ /\ state'.status # state.status =>
            \/ state.status = "countdown" /\ state'.status = "racing"
            \/ /\ state.status = "racing" /\ state'.status = "finished"
               /\ lastStep'.ran = "tick" /\ lastStep'.raceFinished
            \/ state'.status = "racing" /\ state'.tick = 0 /\ state'.timing.lapTimes = <<>>
        /\ state.status = "finished" =>
            \/ state'.status = "finished"
            \/ state'.tick = 0 /\ state'.timing.lapTimes = <<>> ]_vars

\* C9: a step executed while racing increments tick by exactly 1 and leaves track and
\* totalLaps as they are; the ticks committed within one drained frame are consecutive,
\* and a step of the frame starts from the state the step before it committed.
C9_StepTick ==
    lastStep'.ran = "tick" =>
        /\ lastStep'.committed.tick = state.tick + 1
        /\ lastStep'.committed.track = state.track
        /\ lastStep'.committed.totalLaps = state.totalLaps

C9_FrameOrder ==
    /\ \A k \in 2..Len(frameSteps) : frameSteps[k] = frameSteps[k - 1] + 1
    /\ (pc = "drain" /\ lastStep.ran = "tick" /\ accumulator >= TickDuration) =>
           state = lastStep.committed

C9_TicksInOrder == [][C9_StepTick]_vars /\ []C9_FrameOrder

\* one frame has committed two steps, with the observer registered
C9_Witness == Len(frameSteps) >= 2 /\ onStateChange = "callback"

\* C10: with an observer registered, a step that commits a tick calls it exactly once,
\* with the committed state, which is the state getState() returns at that moment; a step
\* that commits nothing does not call it; the tick that commits "finished" is notified.
C10_ObserverOncePerTick ==
    /\ (lastStep.ran = "tick" /\ onStateChange # "null") =>
           /\ lastStep.notified = 1
           /\ lastStep.notifiedState = lastStep.committed
    /\ lastStep.ran = "noop" => lastStep.notified = 0

\* the observer has been called with the state that ends the race
C10_Witness ==
    /\ lastStep.ran = "tick"
    /\ lastStep.notified = 1
    /\ lastStep.notifiedState.status = "finished"


\* C11: every render call is made with 0 <= accumulator < tickDuration, so that
\* alpha = accumulator / tickDuration is in [0, 1).
C11_AlphaInUnitInterval ==
    \A k \in DOMAIN rendered :
        0 <= rendered[k].accumulator /\ rendered[k].accumulator < TickDuration
\* C12: a frame calls step exactly floor((accumulator before the frame + min(elapsed,
\* 0.25 s)) / tickDuration) times, which is at most 15 times.
C12_StepsPerFrame ==
    [][ (pc = "drain" /\ pc' = "idle") =>
            /\ frameCalls =
                 (frameStart.accumulator + Min(frameStart.elapsed, FrameCap)) \div TickDuration
            /\ frameCalls <= FrameCap \div TickDuration ]_vars
\* C13: the scheduler calls getInput() exactly once for each step it executes, in the
\* same iteration and before the step, and passes the value returned to that step: at
\* every point of a frame the number of samples equals the number of steps.
C13_OneSamplePerStep ==
    frameCalls' = frameCalls + 1 =>
        /\ sampled'.reads = sampled.reads + 1
        /\ lastStep' # NoStep
        /\ lastStep'.input = sampled'.value

C13_InputSampledPerStep == [][C13_OneSamplePerStep]_vars /\ [](sampled.reads = frameCalls)

\* a frame has executed two steps
C13_Witness == pc = "drain" /\ frameCalls = 2 /\ sampled.reads = 2
\* C14: a frame of the running loop calls render exactly once, after its steps, with the
\* state getState() returns and the frame's alpha, also when it executes no step and
\* when the race is finished.
C14_RenderOncePerFrame ==
    [][ (pc = "drain" /\ pc' = "idle") =>
            rendered' = <<[state |-> state', accumulator |-> accumulator']>> ]_vars
\* restart() has returned in this transition: called from outside, or by the observer
\* of a step that committed a tick
RestartReturned == restarted' \/ (lastStep'.ran = "tick" /\ state'.tick = 0)

\* the state restart() leaves, but for the two start times
FreshRace ==
    /\ state'.status = "racing"
    /\ state'.tick = 0
    /\ state'.car = [position |-> state.track.startPosition,
                     rotation |-> state.track.startRotation,
                     velocity |-> vec2(0, 0),
                     angularVelocity |-> 0]
    /\ state'.lapProgress = [lastCheckpointIndex |-> 0, checkpointsPassed |-> {0}]
    /\ state'.timing.lapTimes = <<>>
    /\ state'.timing.currentLap = 1
    /\ state'.track = state.track
    /\ state'.totalLaps = state.totalLaps
    /\ running'

\* C15 as stated: from any state, after restart() returns the status is "racing", tick 0,
\* the car at the start pose at rest, lap progress {0}, no lap records, currentLap 1,
\* raceStartTime = lapStartTime, track and totalLaps unchanged, the scheduler running.
C15_RestartEqualStartTimes ==
    [][ RestartReturned =>
            FreshRace /\ state'.timing.raceStartTime = state'.timing.lapStartTime ]_vars

\* C15, amended: the same, with raceStartTime and lapStartTime two successive readings
\* of the clock taken during the call: raceStartTime <= lapStartTime, neither before the
\* call nor after its return.
C15_RestartFreshRace ==
    [][ RestartReturned =>
            /\ FreshRace
            /\ clock <= state'.timing.raceStartTime
            /\ state'.timing.raceStartTime <= state'.timing.lapStartTime
            /\ state'.timing.lapStartTime <= clock' ]_vars

\* restart() has returned with the clock having advanced between the two readings
C15_Witness ==
    /\ restarted
    /\ state.timing.raceStartTime < state.timing.lapStartTime
\* C16: after stop(), and until start() or restart() is called, the scheduler executes
\* no step and no render, whether stop() was called between two frames or by the observer
\* while a frame is draining; the step during which stop() is called commits its state.
C16_StoppedBetweenFrames ==
    (~running /\ pc = "idle" /\ ~running' /\ lastStep' = NoStep) =>
        pc' = "idle" /\ rendered' = <<>>

C16_StoppedInsideFrame ==
    (~running /\ pc = "drain") => frameCalls' # frameCalls + 1 /\ rendered' = rendered

C16_StepInProgressCommits ==
    (lastStep.ran = "tick" /\ ~running) => state = lastStep.committed

C16_NothingRunsAfterStop ==
    /\ [][C16_StoppedBetweenFrames /\ C16_StoppedInsideFrame]_vars
    /\ []C16_StepInProgressCommits
StepAt(t, input, newCar) ==
    step([Machine EXCEPT !.clock = t], input, newCar, "null", "none").M.state

\* C18: step is a deterministic tick that needs no real clock: two executions of step from
\* the same GameState with the same input (and so the same physics result) commit the same
\* GameState, whatever the wall-clock times at which they happen.
C18_StepNeedsNoClock ==
    \A input \in Inputs :
       \A newCar \in PhysicsUpdate(state.car, input, TickDuration) :
          \A t1, t2 \in clock..MaxTime :
             StepAt(t1, input, newCar) = StepAt(t2, input, newCar)

SignedSpeed(car) == getSignedSpeed(car, fromAngle(car.rotation))

\* C20: after every update with throttle and brake in [0, 1] the signed speed lies in
\* [-maxReverseSpeed, +maxSpeed], and the magnitude of the velocity does not exceed
\* max(maxSpeed, maxReverseSpeed).
C20_SpeedWithinLimits ==
    physicsTick >= 1 =>
        /\ -config.maxReverseSpeed <= SignedSpeed(car1)
        /\ SignedSpeed(car1) <= config.maxSpeed
        /\ getCarSpeed(car1) <= Max(config.maxSpeed, config.maxReverseSpeed)

\* a car has been braked into reverse up to the reverse limit, which the acceleration of
\* one more tick would exceed
C20_Witness ==
    /\ physicsTick >= 2
    /\ SignedSpeed(car1) = -config.maxReverseSpeed
    /\ config.brakeAcceleration * TickDuration > config.maxReverseSpeed

\* One tick of coasting: the magnitude of the speed goes down by friction * dt, or to 0
\* if less than that is left, the speed does not change sign, and a car at rest stays at
\* rest where it is.
CoastTick(old, new, frictionForce) ==
    /\ Abs(SignedSpeed(new)) = IF Abs(SignedSpeed(old)) < frictionForce THEN 0
                               ELSE Abs(SignedSpeed(old)) - frictionForce
    /\ SignedSpeed(old) * SignedSpeed(new) >= 0
    /\ SignedSpeed(old) = 0 => SignedSpeed(new) = 0 /\ new.position = old.position

\* the speed of the car of the first run is exactly 0: its velocity is the zero vector
AtRest == car1.velocity = VEC2_ZERO

\* C21: with throttle and brake released on every tick, the speed magnitude decreases by
\* friction * dt per tick without changing sign, reaches exactly 0 after finitely many
\* ticks, and from then on the speed stays 0 and the position no longer changes.
C21_FrictionConvergence ==
    /\ [][CoastTick(car1, car1', config.friction * TickDuration)]_vars
    /\ <>[]AtRest

\* a car that was moving has come to rest by friction, the last tick snapping to 0
C21_Witness ==
    /\ physicsTick >= 2
    /\ SignedSpeed(car1) = 0
    /\ car1.position.x + car1.position.y = TickDuration

\* the checkpoints the motion from oldPos to newPos crosses, in checkpoint-list order
CrossedCheckpoints(checkpoints, oldPos, newPos) ==
    SelectSeq(checkpoints, LAMBDA cp : crossesCheckpoint(oldPos, newPos, cp))

\* the single-crossing transition applied once for each checkpoint of crossed, in order,
\* each application starting from the progress and timing the one before produced
RECURSIVE ApplyInOrder(_, _, _, _, _, _)
ApplyInOrder(progress, timing, crossed, totalCheckpoints, totalLaps, now) ==
    IF crossed = <<>> THEN [progress |-> progress, timing |-> timing]
    ELSE LET result == processCheckpointCross(progress, timing, Head(crossed),
                                              totalCheckpoints, totalLaps, now)
         IN  ApplyInOrder(result.progress, result.timing, Tail(crossed),
                          totalCheckpoints, totalLaps, now)

\* the tick that took the GameState old to the GameState new at time now applied the
\* crossings of its motion segment in sequence
CrossingsInSequence(old, new, now) ==
    LET crossed == CrossedCheckpoints(old.track.checkpoints, old.car.position,
                                      new.car.position)
        applied == ApplyInOrder(old.lapProgress, old.timing, crossed,
                                Len(old.track.checkpoints), old.totalLaps, now)
        k == old.lapProgress.lastCheckpointIndex
    IN  /\ new.lapProgress = applied.progress
        /\ new.timing = applied.timing
        /\ ( /\ k + 2 < Len(old.track.checkpoints)
              /\ \E i \in DOMAIN crossed : crossed[i].index = k + 1
              /\ \E j \in DOMAIN crossed : crossed[j].index = k + 2
              /\ \A h \in DOMAIN crossed : crossed[h].index # k + 3
              /\ old.lapProgress.checkpointsPassed \cap {k + 1, k + 2} = {} )
           => /\ new.lapProgress.lastCheckpointIndex = k + 2
              /\ {k + 1, k + 2} \subseteq new.lapProgress.checkpointsPassed

\* C22: the result of updateLapProgress for a tick equals applying the single-crossing
\* transition once for each checkpoint crossed by the motion segment, in checkpoint-list
\* order, each from the progress and timing produced by the one before; a tick crossing
\* both k+1 and k+2 (and not k+3 as well) with lastCheckpointIndex = k ends with
\* lastCheckpointIndex = k+2 and both in the passed set.
C22_CrossingsAppliedInSequence ==
    [][lastStep'.ran = "tick" =>
          CrossingsInSequence(state, lastStep'.committed, lastStep'.now)]_vars

\* the latest tick crossed checkpoints 1 and 2 and recorded both
C22_Witness ==
    /\ lastStep.ran = "tick"
    /\ Len(lastStep.crossings) >= 2
    /\ lastStep.crossings[1].progress.lastCheckpointIndex = 0
    /\ state.lapProgress.lastCheckpointIndex = 2
    /\ {1, 2} \subseteq state.lapProgress.checkpointsPassed

\* the signed speed of the car engine.update returns for car1 and input
SpeedAfter(input) == SignedSpeed(update(config, car1, input, TickDuration, TickDuration).car)

\* the speed the brake stage is given: the speed after the throttle stage
PostThrottleSpeed(input) ==
    IF input.throttle > 0
    THEN SignedSpeed(car1) + config.acceleration * input.throttle * TickDuration
    ELSE SignedSpeed(car1)

\* what the brake stage is to return for the post-throttle speed s and brake b > 0
BrakedSpeed(s, b) ==
    IF s > config.minSteeringSpeed
    THEN Max(0, s - config.brakeAcceleration * b * TickDuration)
    ELSE IF s < -config.minSteeringSpeed
    THEN Min(0, s + config.brakeAcceleration * b * TickDuration)
    ELSE s - (config.brakeAcceleration * b * TickDuration) \div 2

\* C23: the brake stage with brake b > 0 on the post-throttle speed s gives
\* max(0, s - brakeAcceleration*b*dt) if s > minSteeringSpeed (forward motion is not turned
\* into reverse within the tick), min(0, s + brakeAcceleration*b*dt) if
\* s < -minSteeringSpeed, and s - 0.5*brakeAcceleration*b*dt if |s| <= minSteeringSpeed;
\* the speed of the tick is that value, limited to [-maxReverseSpeed, maxSpeed].
C23_BrakeStage ==
    \A input \in InputCommands :
       input.brake > 0 =>
          /\ SpeedAfter(input) =
                Max(-config.maxReverseSpeed,
                    Min(config.maxSpeed, BrakedSpeed(PostThrottleSpeed(input), input.brake)))
          /\ PostThrottleSpeed(input) > config.minSteeringSpeed => SpeedAfter(input) >= 0
          /\ PostThrottleSpeed(input) < -config.minSteeringSpeed => SpeedAfter(input) <= 0

\* a car at rest has been braked into reverse by its first update, and a braked update
\* would now take it to 0 from behind
C23_Witness ==
    /\ physicsTick = 1
    /\ SignedSpeed(car1) < -config.minSteeringSpeed
    /\ car1.position # VEC2_ZERO
    /\ \E input \in InputCommands : input.brake > 0 /\ SpeedAfter(input) = 0

\* the rotation of the car engine.update returns for car1 and input
RotationAfter(input) == update(config, car1, input, TickDuration, TickDuration).car.rotation

\* C24: in a tick that starts with the magnitude of the signed speed below
\* minSteeringSpeed, update leaves the rotation unchanged whatever the steering input; a
\* stationary car never rotates.
C24_NoSteeringBelowThreshold ==
    \A input \in InputCommands :
       /\ Abs(SignedSpeed(car1)) < config.minSteeringSpeed =>
              RotationAfter(input) = car1.rotation
       /\ car1.velocity = VEC2_ZERO => RotationAfter(input) = car1.rotation

\* a car creeps below the steering threshold after two updates, still heading the way it
\* started
C24_Witness ==
    /\ physicsTick >= 2
    /\ SignedSpeed(car1) # 0
    /\ Abs(SignedSpeed(car1)) < config.minSteeringSpeed
    /\ car1.rotation \in {0, 1}

CarAfter(input, angularVelocity) ==
    update(config, [car1 EXCEPT !.angularVelocity = angularVelocity], input,
           TickDuration, TickDuration).car

\* C26: after every update the velocity is the unit forward vector of the new rotation
\* scaled by the new signed speed, with no lateral component; the new position is the old
\* position plus the new velocity times dt; angularVelocity is unchanged.
C26_NoLateralSlip ==
    \A input \in InputCommands, angularVelocity \in {0, 1} :
       /\ CarAfter(input, angularVelocity).velocity =
             scale(fromAngle(CarAfter(input, angularVelocity).rotation),
                   SignedSpeed(CarAfter(input, angularVelocity)))
       /\ cross(CarAfter(input, angularVelocity).velocity,
                fromAngle(CarAfter(input, angularVelocity).rotation)) = 0
       /\ CarAfter(input, angularVelocity).position =
             add(car1.position,
                 scale(CarAfter(input, angularVelocity).velocity, TickDuration))
       /\ CarAfter(input, angularVelocity).angularVelocity = angularVelocity

\* a moving car has travelled along both axes: it turned between two ticks
C26_Witness ==
    /\ physicsTick >= 2
    /\ car1.position.x # 0
    /\ car1.position.y # 0
    /\ car1.velocity # VEC2_ZERO

\* two points with coordinates given as fractions <<numerator, denominator>> are the same
SamePoint(a, b) ==
    /\ a.x[1] * b.x[2] = b.x[1] * a.x[2]
    /\ a.y[1] * b.y[2] = b.y[1] * a.y[2]

\* C27: lineSegmentIntersection is symmetric in its arguments: lineSegmentIntersection(A, B)
\* and lineSegmentIntersection(B, A) are both null or both the same point.
C27_IntersectionSymmetric ==
    returned.done =>
       /\ returned.value = Null <=> lineSegmentIntersection(args.seg2, args.seg1) = Null
       /\ returned.value # Null =>
              SamePoint(returned.value, lineSegmentIntersection(args.seg2, args.seg1))

\* two segments cross between grid points, and the two calls write the point as different
\* fractions
C27_Witness ==
    /\ returned.done
    /\ returned.value # Null
    /\ returned.value.x[1] % Abs(returned.value.x[2]) # 0
    /\ lineSegmentIntersection(args.seg2, args.seg1) # returned.value

\* twice the signed area of the triangle a, b, c: which side of the line a-b c is on
Orientation(a, b, c) == cross(subtract(b, a), subtract(c, a))

\* each segment has its two ends on opposite sides of, or on, the line of the other
Straddle(seg1, seg2) ==
    /\ Orientation(seg1.start, seg1.end, seg2.start)
          * Orientation(seg1.start, seg1.end, seg2.end) <= 0
    /\ Orientation(seg2.start, seg2.end, seg1.start)
          * Orientation(seg2.start, seg2.end, seg1.end) <= 0

Parallel(seg1, seg2) ==
    cross(subtract(seg1.end, seg1.start), subtract(seg2.end, seg2.start)) = 0

\* the point, given as fractions, lies on the line of seg
OnLine(point, seg) ==
    (point.x[1] - seg.start.x * point.x[2]) * (seg.end.y - seg.start.y) * point.y[2]
        = (point.y[1] - seg.start.y * point.y[2]) * (seg.end.x - seg.start.x) * point.x[2]

\* C28: lineSegmentIntersection returns a point exactly when the direction vectors are not
\* parallel and both line parameters lie in [0, 1] inclusive: segments that only touch at
\* an endpoint intersect; parallel segments, collinear overlapping ones and segments of
\* length zero included, yield null.  The point returned lies on both segments.
C28_IntersectionExactlyWhen ==
    returned.done =>
       /\ returned.value # Null <=> ~Parallel(args.seg1, args.seg2) /\ Straddle(args.seg1, args.seg2)
       /\ Parallel(args.seg1, args.seg2) => returned.value = Null
       /\ (args.seg1.start = args.seg1.end \/ args.seg2.start = args.seg2.end) =>
              returned.value = Null
       /\ returned.value # Null => OnLine(returned.value, args.seg1) /\ OnLine(returned.value, args.seg2)

\* two segments that are not parallel touch only where the first ends and the second
\* starts, and the call returned that point
C28_Witness ==
    /\ returned.done
    /\ returned.value # Null
    /\ args.seg1.end = args.seg2.start
    /\ returned.value.x[1] = args.seg1.end.x * returned.value.x[2]
    /\ returned.value.y[1] = args.seg1.end.y * returned.value.y[2]

\* C29: formatTime(ms) for a whole ms in [0, 6000000) is the 9-character string mm:ss.mmm
\* with mm = floor(ms / 60000), ss = floor((ms mod 60000) / 1000), mmm = ms mod 1000, each
\* padded with zeros; formatTime(61500) = "01:01.500" and formatTime(0) = "00:00.000".
C29_FormatTime ==
    (returned.done /\ args.ms < 6000000) =>
       /\ Len(returned.value) = 9
       /\ returned.value =
             << Digit((args.ms \div 60000) \div 10), Digit((args.ms \div 60000) % 10), ":",
                Digit(((args.ms % 60000) \div 1000) \div 10),
                Digit(((args.ms % 60000) \div 1000) % 10), ".",
                Digit((args.ms % 1000) \div 100), Digit(((args.ms % 1000) \div 10) % 10),
                Digit(args.ms % 10) >>
       /\ args.ms = 61500 => returned.value = <<"0", "1", ":", "0", "1", ".", "5", "0", "0">>
       /\ args.ms = 0 => returned.value = <<"0", "0", ":", "0", "0", ".", "0", "0", "0">>

\* 61500 ms has been formatted as 01:01.500
C29_Witness ==
    /\ returned.done
    /\ args.ms = 61500
    /\ returned.value = <<"0", "1", ":", "0", "1", ".", "5", "0", "0">>

\* the corners of the rectangle of the call
Corners == getRotatedRectCorners(args.center, args.width, args.height, args.rotation)

\* the line of the call intersects at least one of the four edges
CrossesAnEdge ==
    \E i \in 1..4 :
       lineSegmentIntersection(createLineSegment(Corners[i], Corners[(i % 4) + 1]),
                               args.line) # Null

\* C30: rectangleIntersectsLine returns true exactly when the segment intersects at least
\* one of the four rectangle edges (per lineSegmentIntersection) or the start point of the
\* segment is inside the rectangle (per pointInPolygon); the end point is not tested.
C30_RectangleIntersectsLine ==
    returned.done =>
       returned.value = (CrossesAnEdge \/ pointInPolygon(args.line.start, Corners))

\* a line that lies inside the rectangle and crosses none of its edges was found to
\* intersect it
C30_Witness ==
    /\ returned.done
    /\ returned.value
    /\ ~CrossesAnEdge
    /\ args.line.start # args.line.end
    /\ pointInPolygon(args.line.end, Corners)

\* C31: in every reachable state of a race on a track whose checkpoints are indexed
\* 0..N-1 in list order, checkpoint 0 is in the passed set, lastCheckpointIndex is in the
\* passed set, and the passed set is exactly {0, ..., lastCheckpointIndex}.
C31_PassedSetIsPrefix ==
    /\ 0 \in state.lapProgress.checkpointsPassed
    /\ state.lapProgress.lastCheckpointIndex \in state.lapProgress.checkpointsPassed
    /\ state.lapProgress.checkpointsPassed = 0..state.lapProgress.lastCheckpointIndex

\* the latest tick crossed checkpoint 2 alone, after checkpoint 1, and it was recorded
C31_Witness ==
    /\ lastStep.ran = "tick"
    /\ Len(lastStep.crossings) = 1
    /\ lastStep.crossings[1].index = 2
    /\ state.lapProgress.lastCheckpointIndex = 2
    /\ Len(accepted) = 2

\* C32: in every reachable state currentLap = (number of records in lapTimes) + 1 and the
\* i-th record of lapTimes (counting from 1) has lapNumber = i, across any sequence of
\* step, start, stop and restart calls.
C32_LapNumbering ==
    /\ state.timing.currentLap = Len(state.timing.lapTimes) + 1
    /\ \A i \in DOMAIN state.timing.lapTimes : state.timing.lapTimes[i].lapNumber = i

\* a second lap has been recorded
C32_Witness ==
    /\ Len(state.timing.lapTimes) = 2
    /\ state.timing.lapTimes[2].lapNumber = 2
    /\ state.timing.currentLap = 3

\* C33: in every reachable state the number of lap records never exceeds totalLaps, and
\* whenever the status is "racing", currentLap <= totalLaps.
C33_LapsWithinTotal ==
    /\ Len(state.timing.lapTimes) <= state.totalLaps
    /\ state.status = "racing" => state.timing.currentLap <= state.totalLaps

\* the latest tick crossed checkpoint 0 and the last checkpoint, which was the expected
\* next one when the tick began
CrossedLastGateAndFinishLine ==
    /\ lastStep.ran = "tick"
    /\ lastStep.crossings # <<>>
    /\ LET n == Len(lastStep.committed.track.checkpoints)
           before == lastStep.crossings[1].progress
       IN  /\ before.lastCheckpointIndex = n - 2
           /\ (n - 1) \notin before.checkpointsPassed
           /\ \E i \in DOMAIN lastStep.crossings : lastStep.crossings[i].index = 0
           /\ \E j \in DOMAIN lastStep.crossings : lastStep.crossings[j].index = n - 1

\* C34: a tick whose motion segment crosses both checkpoint N-1 (when it is the expected
\* next checkpoint) and checkpoint 0 does not complete the lap in that tick: checkpoint 0
\* is processed first and ignored, then N-1 is recorded; a lap is completed only by a
\* tick that crosses checkpoint 0 with every other checkpoint already passed.
C34_LastGateAndFinishLineInOneTick ==
    /\ CrossedLastGateAndFinishLine =>
          LET n == Len(lastStep.committed.track.checkpoints)
              first == lastStep.crossings[1]
          IN  /\ first.index = 0
              /\ first.result.progress = first.progress
              /\ first.result.timing = first.timing
              /\ lastStep.committed.timing = first.timing
              /\ lastStep.committed.lapProgress.lastCheckpointIndex = n - 1
              /\ (n - 1) \in lastStep.committed.lapProgress.checkpointsPassed
              /\ lastStep.committed.status = "racing"
    /\ \A k \in DOMAIN Crossings :
          Len(Crossings[k].result.timing.lapTimes) > Len(Crossings[k].timing.lapTimes) =>
             /\ Crossings[k].index = 0
             /\ \A c \in 1..(Len(lastStep.committed.track.checkpoints) - 1) :
                   c \in Crossings[k].progress.checkpointsPassed

\* such a tick has happened
C34_Witness ==
    /\ CrossedLastGateAndFinishLine
    /\ state.lapProgress.lastCheckpointIndex = NumCheckpoints - 1
    /\ state.timing.lapTimes = <<>>

\* the sum of the recorded lap times
RECURSIVE SumLapTimes(_)
SumLapTimes(lapTimes) ==
    IF lapTimes = <<>> THEN 0 ELSE Head(lapTimes).timeMs + SumLapTimes(Tail(lapTimes))

\* C35: with a monotonic clock, in every reachable state raceStartTime <= lapStartTime and
\* the sum of the recorded lap times is at most the total race time elapsed
\* (now - raceStartTime), across any sequence of step, stop, start and restart calls.
C35_LapTimesWithinRaceTime ==
    /\ state.timing.raceStartTime <= state.timing.lapStartTime
    /\ SumLapTimes(state.timing.lapTimes) <= getTotalRaceTime(state.timing, clock)

\* the frame callbacks the scheduler holds: the one animationFrameId names, while it has
\* not run, and the ones requested earlier whose id was overwritten
PendingFrames == (IF animationFrameId = "pending" THEN 1 ELSE 0) + orphanFrames

\* C36: at most one frame callback of the scheduler is pending at any time, and none is
\* pending while the loop is stopped, for every interleaving of frames with start, stop
\* and restart calls, including restart() or stop() called by the state-change observer
\* during a frame and restart() called by a key handler between frames.
C36_OnePendingFrame ==
    /\ PendingFrames <= 1
    /\ ~running => PendingFrames = 0

\* the reverse force of a tick with the brake fully held: 0.5 * brakeAcceleration * dt
ReverseForce == (config.brakeAcceleration * TickDuration) \div 2

\* C37: under brake-only input (throttle 0, brake b > 0 on every tick) from rest, the
\* signed speed stays within [-(minSteeringSpeed + 0.5 * brakeAcceleration * b * dt), 0]
\* at every tick; the reverse speed never reaches maxReverseSpeed when that bound is
\* below maxReverseSpeed.
C37_BrakeOnlySpeedRange ==
    /\ -(config.minSteeringSpeed + ReverseForce) <= SignedSpeed(car1)
    /\ SignedSpeed(car1) <= 0
    /\ config.minSteeringSpeed + ReverseForce < config.maxReverseSpeed =>
          -SignedSpeed(car1) < config.maxReverseSpeed

\* a car whose reverse limit is further out has been turned back by the brake: it went
\* beyond -minSteeringSpeed and is at rest again
C37_Witness ==
    /\ physicsTick >= 3
    /\ config.minSteeringSpeed + ReverseForce < config.maxReverseSpeed
    /\ SignedSpeed(car1) = 0
    /\ car1.position # VEC2_ZERO

\* C38: start() called while the loop is already running is a no-op: it changes neither
\* the status, raceStartTime, lapStartTime nor the accumulator, does not start the input
\* source again and does not schedule a second frame callback.
C38_StartWhileRunningIsNoop ==
    [][ startIgnored' =>
           /\ state' = state
           /\ accumulator' = accumulator
           /\ lastTime' = lastTime
           /\ running' = running
           /\ listening' = listening
           /\ animationFrameId' = animationFrameId
           /\ orphanFrames' = orphanFrames
           /\ clock' = clock ]_vars

\* start() was called on a running loop whose accumulator is not 0 and whose lap began
\* before the latest reading of the clock
C38_Witness ==
    /\ startIgnored
    /\ running
    /\ accumulator > 0
    /\ animationFrameId = "pending"
    /\ clock > state.timing.lapStartTime

\* C39: a tick in which the car's position does not change crosses no checkpoint, even
\* when the car sits exactly on a checkpoint line, so lapProgress and timing are unchanged
\* by that tick and a car parked on the start/finish line never accumulates laps.
C39_ParkedCarCrossesNothing ==
    returned.done =>
       LET before == ParkedState(args.position, args.velocity, args.last)
       IN  /\ returned.value.ran = "tick"
           /\ returned.value.crossings = <<>>
           /\ \A k \in DOMAIN before.track.checkpoints :
                 ~crossesCheckpoint(args.position, args.position, before.track.checkpoints[k])
           /\ returned.value.committed.lapProgress = before.lapProgress
           /\ returned.value.committed.timing = before.timing
           /\ returned.value.committed.status = "racing"
           /\ returned.value.committed.tick = before.tick + 1

\* a car standing on the start/finish line with every other checkpoint passed was stepped
C39_Witness ==
    /\ returned.done
    /\ args.position = vec2(0, 1)
    /\ args.last = NumCheckpoints - 1
    /\ returned.value.committed.timing.lapTimes = <<>>

\* what inputSource.getInput() returns in the current state
CurrentInput == KeyboardInput_getInput(keys)

\* C40: after KeyboardInput.stop() (and therefore after GameLoop.stop() or restart()),
\* getInput() returns throttle 0, brake 0, steering 0 until a new keydown event is
\* received; at all times getInput() returns throttle and brake in {0, 1} and steering in
\* {-1, 0, 1}, with left and right pressed together giving steering 0.
C40_KeyboardInput ==
    /\ CurrentInput.throttle \in {0, 1}
    /\ CurrentInput.brake \in {0, 1}
    /\ CurrentInput.steering \in {-1, 0, 1}
    /\ (keys.left /\ keys.right) => CurrentInput.steering = 0
    /\ ~sinceStop.keydown => CurrentInput = INPUT_NONE

\* the loop was restarted while keys were down: the listeners are attached again and no
\* keydown has arrived yet
C40_Witness ==
    /\ sinceStop.held
    /\ ~sinceStop.keydown
    /\ listening
    /\ CurrentInput = INPUT_NONE
====
